---------------------------- MODULE Spec2Model ----------------------------
(***************************************************************************)
(* A model of python-mime's Linux backend (mime/backends/linux.py) and of  *)
(* its base class (mime/backends/base.py): the alias table, the glob       *)
(* index with its matching algorithm, the generic-icon table and the       *)
(* MimeType facade.  Python strings are TLA+ strings, a dict is a function *)
(* from its keys, a list is a sequence, and the outcome of a call is       *)
(* either a returned value, None or a raised exception.                    *)
(***************************************************************************)
EXTENDS Integers, Sequences, FiniteSets, TLC

VARIABLES
    aliases,      \* AliasesFile.__aliases: dict alias -> canonical
    aliasLog,     \* history: every line handed to AliasesFile.parse so far
    aliasBefore,  \* history: __aliases as it was before the last parse call
    aliasFailed,  \* history: some AliasesFile.parse call raised
    matches,      \* GlobsFile.__matches: list of (weight, mime, glob, flags)
    literals,     \* GlobsFile.__literals: dict glob -> int
    globLoaded,   \* history: how many lines GlobsFile.parse was handed so far
    icons,        \* IconsFile.__icons: dict mime -> icon
    obj,          \* the MimeType object under test: its __name and _comment
    docs,         \* the per-type XML documents getMimeFiles finds for obj
    lastOp,       \* the operation that ran last
    arg,          \* its argument
    out           \* its outcome

vars == <<aliases, aliasLog, aliasBefore, aliasFailed, matches, literals,
          globLoaded, icons, obj, docs, lastOp, arg, out>>

aliasVars == <<aliases, aliasLog, aliasBefore, aliasFailed>>
globVars  == <<matches, literals, globLoaded>>
mimeVars  == <<icons, obj, docs>>

-----------------------------------------------------------------------------
(* Bounds of the model.                                                    *)

MaxAliasLog == 3     \* lines handed to AliasesFile.parse, over all calls
MaxFileLines == 2    \* lines of one source file
MaxRules == 2        \* lines handed to GlobsFile.parse, over all calls
MaxIcons == 2        \* entries of the icon table plus lines being loaded

-----------------------------------------------------------------------------
(* Outcomes of a call.                                                     *)

None == <<"None">>
Ret(v) == <<"ret", v>>
Raise(e) == <<"raise", e>>
IsRaise(o) == o[1] = "raise"

(* Python strings.                                                         *)

Chr(s, i) == SubSeq(s, i, i)
Drop(s, n) == SubSeq(s, n + 1, Len(s))
Take(s, n) == SubSeq(s, 1, n)

\* s.find(c, i - 1) + 1 for a one-character c: the first position of c at
\* or after i, 0 if none
RECURSIVE FindFrom(_, _, _)
FindFrom(s, c, i) ==
    IF i > Len(s) THEN 0
    ELSE IF Chr(s, i) = c THEN i
    ELSE FindFrom(s, c, i + 1)

Find(s, c) == FindFrom(s, c, 1)

\* c in s, for a one-character c
HasChar(s, c) == Find(s, c) # 0

\* s.startswith(p)
StartsWith(s, p) == Len(s) >= Len(p) /\ Take(s, Len(p)) = p

\* if line.endswith("\n"): line = line[:-1]
StripNewline(line) ==
    IF Len(line) >= 1 /\ Chr(line, Len(line)) = "\n"
    THEN Take(line, Len(line) - 1)
    ELSE line

\* s.split(sep) for a one-character sep: always at least one field
RECURSIVE Split(_, _)
Split(s, sep) ==
    LET i == Find(s, sep)
    IN  IF i = 0 THEN <<s>>
        ELSE <<Take(s, i - 1)>> \o Split(Drop(s, i), sep)

\* s.partition(sep) for a one-character sep: (head, sep, tail), and
\* (s, "", "") when sep does not occur
Partition(s, sep) ==
    LET i == Find(s, sep)
    IN  IF i = 0 THEN <<s, "", "">>
        ELSE <<Take(s, i - 1), sep, Drop(s, i)>>

UpperCase == "ABCDEFGHIJKLMNOPQRSTUVWXYZ"
LowerCase == "abcdefghijklmnopqrstuvwxyz"

\* the lower-case form of each upper-case letter
LowerOf ==
    [c \in { Chr(UpperCase, i) : i \in 1..Len(UpperCase) } |->
        Chr(LowerCase, Find(UpperCase, c))]

\* s.lower()
RECURSIVE Lower(_)
Lower(s) ==
    IF s = "" THEN ""
    ELSE LET c == Chr(s, 1)
         IN  (IF c \in DOMAIN LowerOf THEN LowerOf[c] ELSE c)
                 \o Lower(Drop(s, 1))

\* s.replace(a, b) for one-character a
RECURSIVE Replace(_, _, _)
Replace(s, a, b) ==
    IF s = "" THEN ""
    ELSE (IF Chr(s, 1) = a THEN b ELSE Chr(s, 1)) \o Replace(Drop(s, 1), a, b)

Digits == "0123456789"

RECURSIVE DigitsValue(_, _)
DigitsValue(s, acc) ==
    IF s = "" THEN acc
    ELSE DigitsValue(Drop(s, 1), 10 * acc + (Find(Digits, Chr(s, 1)) - 1))

\* int(s): an optional sign and at least one decimal digit, else ValueError
\* (the blanks int() tolerates around the number occur in no line of the
\* model)
ParseInt(s) ==
    LET signed == Len(s) >= 1 /\ Chr(s, 1) \in {"-", "+"}
        body == IF signed THEN Drop(s, 1) ELSE s
    IN  IF body = "" \/ \E i \in 1..Len(body) : ~HasChar(Digits, Chr(body, i))
        THEN Raise("ValueError")
        ELSE Ret(IF signed /\ Chr(s, 1) = "-"
                 THEN 0 - DigitsValue(body, 0)
                 ELSE DigitsValue(body, 0))

\* d[k] = v
DictSet(d, k, v) ==
    [x \in (DOMAIN d) \cup {k} |-> IF x = k THEN v ELSE d[x]]

\* d.get(k)
DictGet(d, k) == IF k \in DOMAIN d THEN Ret(d[k]) ELSE None

EmptyDict == [x \in {} |-> ""]

-----------------------------------------------------------------------------
(* AliasesFile                                                             *)

\* AliasLine keeping the entry an alias already has
AliasLineKeepFirst(d, rawLine) ==
    LET fields == Split(StripNewline(rawLine), " ")
    IN  IF Len(fields) # 2 THEN Raise("ValueError")
        ELSE IF fields[1] \in DOMAIN d THEN Ret(d)
        ELSE Ret(DictSet(d, fields[1], fields[2]))

\* The body of the loop of AliasesFile.parse for one line: the new dict,
\* or a raise when the line does not unpack into two fields.
AliasLine(d, rawLine) ==
    LET fields == Split(StripNewline(rawLine), " ")
    IN  IF Len(fields) # 2 THEN Raise("ValueError")
        ELSE Ret(DictSet(d, fields[1], fields[2]))

\* AliasesFile.parse: the lines in order; the first raise ends the loop and
\* leaves the dict as the lines before it made it.
RECURSIVE AliasesParseFrom(_, _)
AliasesParseFrom(d, lines) ==
    IF lines = <<>> THEN <<d, None>>
    ELSE LET r == AliasLine(d, Head(lines))
         IN  IF IsRaise(r) THEN <<d, r>>
             ELSE AliasesParseFrom(r[2], Tail(lines))

AliasesGet(d, name) == DictGet(d, name)

AliasLines ==
    { "text/x-foo text/foo\n", "text/x-foo text/bar\n", "image/jpg image/jpeg",
      "text/x-foo\n", "a/b c/d e/f\n" }

AliasNames == { "text/x-foo", "image/jpg", "text/foo", "a/b" }

Min(a, b) == IF a <= b THEN a ELSE b

\* the source files of at most n lines, each line from S
SeqsUpTo(S, n) == UNION { [1..k -> S] : k \in 1..n }

\* the source files that fit when `room` more lines may be loaded: iterating
\* a file yields lines that end in "\n", except possibly the last one
Files(S, room) ==
    { f \in SeqsUpTo(S, Min(MaxFileLines, room)) :
        \A k \in 1..(Len(f) - 1) : Chr(f[k], Len(f[k])) = "\n" }

AliasesParse(file) ==
    /\ Len(aliasLog) + Len(file) <= MaxAliasLog
    /\ LET r == AliasesParseFrom(aliases, file)
       IN  /\ aliases' = r[1]
           /\ out' = r[2]
           /\ aliasFailed' = (aliasFailed \/ IsRaise(r[2]))
    /\ aliasBefore' = aliases
    /\ aliasLog' = aliasLog \o file
    /\ lastOp' = "AliasesFile.parse"
    /\ arg' = file
    /\ UNCHANGED <<globVars, mimeVars>>

AliasesGetCall(name) ==
    /\ out' = AliasesGet(aliases, name)
    /\ lastOp' = "AliasesFile.get"
    /\ arg' = name
    /\ UNCHANGED <<aliasVars, globVars, mimeVars>>

-----------------------------------------------------------------------------
(* fnmatch.fnmatch, which GlobsFile.match calls: on Linux os.path.normcase *)
(* is the identity, and the pattern is matched against the whole name.     *)

\* The characters the class ranges of the model's patterns run over, in
\* ASCII order
Ascii ==
    "0123456789ABCDEFGHIJKLMNOPQRSTUVWXYZabcdefghijklmnopqrstuvwxyz"

Ord(c) == Find(Ascii, c)

\* fnmatch.translate on "[": the position in rest (the pattern after the
\* "[") of the "]" closing the class, 0 if the class is never closed.  A "]"
\* right after "[" or "[!" belongs to the class.
RECURSIVE ScanToClose(_, _)
ScanToClose(rest, j) ==
    IF j > Len(rest) THEN 0
    ELSE IF Chr(rest, j) = "]" THEN j
    ELSE ScanToClose(rest, j + 1)

ClassEnd(rest) ==
    LET j1 == IF Len(rest) >= 1 /\ Chr(rest, 1) = "!" THEN 2 ELSE 1
        j2 == IF j1 <= Len(rest) /\ Chr(rest, j1) = "]" THEN j1 + 1 ELSE j1
    IN  ScanToClose(rest, j2)

\* c is one of the characters of the class body: single characters and
\* ranges x-y
RECURSIVE InBody(_, _)
InBody(c, body) ==
    IF body = "" THEN FALSE
    ELSE IF Len(body) >= 3 /\ Chr(body, 2) = "-"
    THEN \/ (Ord(Chr(body, 1)) <= Ord(c) /\ Ord(c) <= Ord(Chr(body, 3)))
         \/ InBody(c, Drop(body, 3))
    ELSE c = Chr(body, 1) \/ InBody(c, Drop(body, 1))

\* c matches the class [stuff]; a leading "!" negates it
InClass(c, stuff) ==
    IF Chr(stuff, 1) = "!" THEN ~InBody(c, Drop(stuff, 1))
    ELSE InBody(c, stuff)

RECURSIVE Fnmatch(_, _)
Fnmatch(name, pat) ==
    IF pat = "" THEN name = ""
    ELSE LET c == Chr(pat, 1)
             rest == Drop(pat, 1)
         IN  CASE c = "*" ->
                    \E k \in 0..Len(name) : Fnmatch(Drop(name, k), rest)
               [] c = "?" ->
                    name # "" /\ Fnmatch(Drop(name, 1), rest)
               [] c = "[" ->
                    LET j == ClassEnd(rest)
                    IN  IF j = 0
                        THEN /\ name # ""
                             /\ Chr(name, 1) = "["
                             /\ Fnmatch(Drop(name, 1), rest)
                        ELSE /\ name # ""
                             /\ InClass(Chr(name, 1), Take(rest, j - 1))
                             /\ Fnmatch(Drop(name, 1), Drop(rest, j))
               [] OTHER ->
                    /\ name # ""
                    /\ Chr(name, 1) = c
                    /\ Fnmatch(Drop(name, 1), rest)

-----------------------------------------------------------------------------
(* GlobsFile                                                               *)

\* "*" not in glob and "?" not in glob and "[" not in glob
IsLiteralGlob(glob) ==
    ~HasChar(glob, "*") /\ ~HasChar(glob, "?") /\ ~HasChar(glob, "[")

\* The value GlobsFile.parse stores in __literals for the rule it has just
\* appended: len(self.__matches), taken after the append.
LiteralIndex(ms) == Len(ms)

\* The body of the loop of GlobsFile.parse for one line, on the state
\* st = <<__matches, __literals>>: the new state, or a raise from int().
GlobsLine(st, rawLine) ==
    IF StartsWith(rawLine, "#") THEN Ret(st)
    ELSE LET line == StripNewline(rawLine)
             p1 == Partition(line, ":")
             p2 == Partition(p1[3], ":")
             p3 == Partition(p2[3], ":")
             p4 == Partition(p3[3], ":")
             weight == ParseInt(p1[1])
             mime == p2[1]
             glob == p3[1]
             flags == IF p4[1] # "" THEN Split(p4[1], ",") ELSE <<>>
         IN  IF IsRaise(weight) THEN weight
             ELSE LET ms == Append(st[1], <<weight[2], mime, glob, flags>>)
                  IN  Ret(<<ms,
                            IF IsLiteralGlob(glob)
                            THEN DictSet(st[2], glob, LiteralIndex(ms))
                            ELSE st[2]>>)

\* GlobsFile.parse: the lines in order; a raise ends the loop and keeps what
\* the lines before it appended.
RECURSIVE GlobsParseFrom(_, _)
GlobsParseFrom(st, lines) ==
    IF lines = <<>> THEN <<st, None>>
    ELSE LET r == GlobsLine(st, Head(lines))
         IN  IF IsRaise(r) THEN <<st, r>>
             ELSE GlobsParseFrom(r[2], Tail(lines))

\* RuleMatches with the pattern lower-cased as well as the file name
RuleMatchesFoldPattern(rule, name) ==
    \/ Fnmatch(name, rule[3])
    \/ /\ \A i \in 1..Len(rule[4]) : rule[4][i] # "cs"
       /\ Fnmatch(Lower(name), Lower(rule[3]))

\* The test of the scan in GlobsFile.match for one rule
RuleMatches(rule, name) ==
    \/ Fnmatch(name, rule[3])
    \/ /\ \A i \in 1..Len(rule[4]) : rule[4][i] # "cs"
       /\ Fnmatch(Lower(name), rule[3])

\* The list the scan of GlobsFile.match builds: (weight, mime, glob) of
\* every rule that matches, in the order of __matches
RECURSIVE ScanMatches(_, _)
ScanMatches(ms, name) ==
    IF ms = <<>> THEN <<>>
    ELSE (IF RuleMatches(Head(ms), name)
          THEN <<<<Head(ms)[1], Head(ms)[2], Head(ms)[3]>>>>
          ELSE <<>>) \o ScanMatches(Tail(ms), name)

\* key(a) > key(b) for the key (weight, len(glob)) of GlobsFile.match
KeyGreater(a, b) ==
    \/ a[1] > b[1]
    \/ a[1] = b[1] /\ Len(a[3]) > Len(b[3])

\* MaxByKey taking the last of the elements that no other exceeds
RECURSIVE MaxByKeyLast(_, _)
MaxByKeyLast(best, rest) ==
    IF rest = <<>> THEN best
    ELSE MaxByKeyLast(IF KeyGreater(best, Head(rest)) THEN best
                      ELSE Head(rest),
                      Tail(rest))

\* max(list, key=...): the first element that no other exceeds
RECURSIVE MaxByKey(_, _)
MaxByKey(best, rest) ==
    IF rest = <<>> THEN best
    ELSE MaxByKey(IF KeyGreater(Head(rest), best) THEN Head(rest) ELSE best,
                  Tail(rest))

\* self.__matches[i] for a Python index i >= 0
ListItem(ms, i) ==
    IF i + 1 <= Len(ms) THEN Ret(ms[i + 1]) ELSE Raise("IndexError")

\* GlobsFile.match
GlobsMatch(ms, lits, name) ==
    IF name \in DOMAIN lits
    THEN LET r == ListItem(ms, lits[name])
         IN  IF IsRaise(r) THEN r ELSE Ret(r[2][2])
    ELSE LET found == ScanMatches(ms, name)
         IN  IF found = <<>> THEN Ret("")
             ELSE Ret(MaxByKey(Head(found), Tail(found))[2])

\* MimeType.fromName: the name of the MimeType it returns, or None
FromName(ms, lits, name) ==
    LET mime == GlobsMatch(ms, lits, name)
    IN  IF IsRaise(mime) THEN mime
        ELSE IF mime[2] # "" THEN Ret(mime[2]) ELSE None

GlobLines ==
    { "# comment\n",
      "50:text/plain:*.txt:\n",
      "60:text/x-log:*.log:\n",
      "50:application/x-gzip:*.gz\n",
      "50:application/x-compressed-tar:*.tar.gz\n",
      "60:application/x-any:[a-z]*\n",
      "50:text/x-makefile:Makefile\n",
      "50:image/jpeg:*.JPG\n",
      "50:text/x-tx:*.tx?:cs,x\n",
      "50\n",
      "50:text/plain",
      ":text/plain:*.txt\n",
      "50::*.txt\n" }

FileNames ==
    { "", "Makefile", "x.tar.gz", "photo.jpg", "NOTES.TXT", "server.log",
      "notes.txt", "unknown.bin" }

GlobsParse(file) ==
    /\ globLoaded + Len(file) <= MaxRules
    /\ globLoaded' = globLoaded + Len(file)
    /\ LET r == GlobsParseFrom(<<matches, literals>>, file)
       IN  /\ matches' = r[1][1]
           /\ literals' = r[1][2]
           /\ out' = r[2]
    /\ lastOp' = "GlobsFile.parse"
    /\ arg' = file
    /\ UNCHANGED <<aliasVars, mimeVars>>

GlobsMatchCall(name) ==
    /\ out' = GlobsMatch(matches, literals, name)
    /\ lastOp' = "GlobsFile.match"
    /\ arg' = name
    /\ UNCHANGED <<aliasVars, globVars, mimeVars>>

FromNameCall(name) ==
    /\ out' = FromName(matches, literals, name)
    /\ lastOp' = "MimeType.fromName"
    /\ arg' = name
    /\ UNCHANGED <<aliasVars, globVars, mimeVars>>

-----------------------------------------------------------------------------
(* IconsFile                                                               *)

\* The body of the loop of IconsFile.parse for one line
IconsLine(d, rawLine) ==
    LET fields == Split(StripNewline(rawLine), ":")
    IN  IF Len(fields) # 2 THEN Raise("ValueError")
        ELSE Ret(DictSet(d, fields[1], fields[2]))

\* IconsFile.parse
RECURSIVE IconsParseFrom(_, _)
IconsParseFrom(d, lines) ==
    IF lines = <<>> THEN <<d, None>>
    ELSE LET r == IconsLine(d, Head(lines))
         IN  IF IsRaise(r) THEN <<d, r>>
             ELSE IconsParseFrom(r[2], Tail(lines))

IconsGet(d, name) == DictGet(d, name)

-----------------------------------------------------------------------------
(* BaseMime and MimeType                                                   *)

\* The names bound at module level in base.py, where BaseMime's methods
\* look up a bare name; DEFAULT_TEXT and DEFAULT_BINARY are attributes of
\* the class and not among them.
BaseGlobals == { "BaseMime" }

DEFAULT_TEXT == "text/plain"
DEFAULT_BINARY == "application/octet-stream"

\* The value of a bare name inside a method of BaseMime
GlobalName(id) ==
    IF id \in BaseGlobals THEN Ret(id) ELSE Raise("NameError")

\* BaseMime.__init__: self.__name = mime, self._comment = None
BaseInit(mime) == [exists |-> TRUE, name |-> mime, comment |-> None]

\* before any MimeType has been constructed
NoObject == [exists |-> FALSE, name |-> "", comment |-> None]

\* MimeType.genericIcon
GenericIcon(o, ic) == IconsGet(ic, o.name)

\* Icon falling back only when no icon is registered, not when the
\* registered icon is empty
IconUnlessNone(o, ic) ==
    LET g == IconsGet(ic, o.name)
    IN  IF g # None THEN g
        ELSE Ret(Replace(o.name, "/", "-"))

\* BaseMime.icon: self.genericIcon() or self.name().replace("/", "-")
Icon(o, ic) ==
    LET g == GenericIcon(o, ic)
    IN  IF g # None /\ g[2] # "" THEN g
        ELSE Ret(Replace(o.name, "/", "-"))

\* BaseMime.isDefault: name == DEFAULT_BINARY or name == DEFAULT_TEXT, with
\* both constants looked up as bare names
IsDefault(o) ==
    LET b == GlobalName("DEFAULT_BINARY")
        t == GlobalName("DEFAULT_TEXT")
    IN  IF IsRaise(b) THEN b
        ELSE IF o.name = DEFAULT_BINARY THEN Ret(TRUE)
        ELSE IF IsRaise(t) THEN t
        ELSE Ret(o.name = DEFAULT_TEXT)

\* The inner loop of MimeType.comment over one document, a sequence of
\* comment elements <<xml:lang, text>> (xml:lang "" when the attribute is
\* absent): the dict after the first element whose language is lang
RECURSIVE CommentInDoc(_, _, _)
CommentInDoc(d, lang, doc) ==
    IF doc = <<>> THEN d
    ELSE LET nslang == IF Head(doc)[1] # "" THEN Head(doc)[1] ELSE "en"
         IN  IF nslang = lang THEN DictSet(d, lang, Head(doc)[2])
             ELSE CommentInDoc(d, lang, Tail(doc))

\* The outer loop of MimeType.comment over the documents of the type
RECURSIVE CommentInDocs(_, _, _)
CommentInDocs(d, lang, files) ==
    IF files = <<>> THEN d
    ELSE CommentInDocs(CommentInDoc(d, lang, Head(files)), lang, Tail(files))

\* MimeType.comment: <<outcome, the object's _comment afterwards>>.
\* "lang not in self._comment" raises when _comment is None.
Comment(o, lang, files) ==
    IF o.comment = None THEN <<Raise("TypeError"), o.comment>>
    ELSE IF lang \in DOMAIN o.comment THEN <<Ret(o.comment[lang]), o.comment>>
    ELSE IF files = <<>> THEN <<None, o.comment>>
    ELSE LET d == CommentInDocs(o.comment, lang, files)
         IN  IF lang \in DOMAIN d THEN <<Ret(d[lang]), d>>
             ELSE <<Raise("KeyError"), d>>

IconLines ==
    { "application/x-foo:x-office-document\n", "text/plain:text-x-generic",
      "text/plain:\n", "image/png\n" }

TypeNames ==
    { "application/x-foo", "text/plain", "application/octet-stream", "" }

\* What getMimeFiles finds for a type: no document, one document with an
\* English comment, or two documents, the second with a French one too
DocSets ==
    { <<>>,
      << << <<"", "plain text document">> >> >>,
      << << <<"", "plain text document">> >>,
         << <<"en", "text">>, <<"fr", "document texte brut">> >> >> }

Langs == { "en", "fr", "de" }

IconsParse(file) ==
    /\ Cardinality(DOMAIN icons) + Len(file) <= MaxIcons
    /\ LET r == IconsParseFrom(icons, file)
       IN  /\ icons' = r[1]
           /\ out' = r[2]
    /\ lastOp' = "IconsFile.parse"
    /\ arg' = file
    /\ UNCHANGED <<aliasVars, globVars, obj, docs>>

\* MimeType(name), for a type whose documents on disk are files
New(name, files) ==
    /\ obj' = BaseInit(name)
    /\ docs' = files
    /\ lastOp' = "MimeType"
    /\ arg' = name
    /\ out' = None
    /\ UNCHANGED <<aliasVars, globVars, icons>>

IconCall ==
    /\ obj.exists
    /\ out' = Icon(obj, icons)
    /\ lastOp' = "icon"
    /\ arg' = None
    /\ UNCHANGED <<aliasVars, globVars, mimeVars>>

IsDefaultCall ==
    /\ obj.exists
    /\ out' = IsDefault(obj)
    /\ lastOp' = "isDefault"
    /\ arg' = None
    /\ UNCHANGED <<aliasVars, globVars, mimeVars>>

CommentCall(lang) ==
    /\ obj.exists
    /\ LET r == Comment(obj, lang, docs)
       IN  /\ out' = r[1]
           /\ obj' = [obj EXCEPT !.comment = r[2]]
    /\ lastOp' = "comment"
    /\ arg' = lang
    /\ UNCHANGED <<aliasVars, globVars, icons, docs>>

Init ==
    /\ aliases = EmptyDict
    /\ aliasLog = <<>>
    /\ aliasBefore = EmptyDict
    /\ aliasFailed = FALSE
    /\ matches = <<>>
    /\ literals = EmptyDict
    /\ globLoaded = 0
    /\ icons = EmptyDict
    /\ obj = NoObject
    /\ docs = <<>>
    /\ lastOp = "init"
    /\ arg = None
    /\ out = None

NextAliases ==
    \/ \E file \in Files(AliasLines, MaxAliasLog - Len(aliasLog)) :
            AliasesParse(file)
    \/ \E name \in AliasNames : AliasesGetCall(name)

SpecAliases == Init /\ [][NextAliases]_vars

NextGlobs ==
    \/ \E file \in Files(GlobLines, MaxRules - globLoaded) :
            GlobsParse(file)
    \/ \E name \in FileNames : GlobsMatchCall(name)
    \/ \E name \in FileNames : FromNameCall(name)

SpecGlobs == Init /\ [][NextGlobs]_vars


NextMime ==
    \/ \E file \in Files(IconLines, MaxIcons - Cardinality(DOMAIN icons)) :
            IconsParse(file)
    \/ \E name \in TypeNames, files \in DocSets : New(name, files)
    \/ IconCall
    \/ IsDefaultCall
    \/ \E lang \in Langs : CommentCall(lang)

SpecMime == Init /\ [][NextMime]_vars


\* The three tables share no state: each component is also a specification
\* of its own, and the properties of a component are stated for it.
Next == NextAliases \/ NextGlobs \/ NextMime

Spec == Init /\ [][Next]_vars

-----------------------------------------------------------------------------
(* Properties of the glob index, under SpecGlobs.                          *)

\* glob contains none of "*", "?", "["
WildcardFree(glob) ==
    \A k \in 1..Len(glob) : Chr(glob, k) \notin { "*", "?", "[" }

\* the loaded rules whose glob is the wildcard-free string name
LiteralRules(name) ==
    { i \in 1..Len(matches) :
        WildcardFree(matches[i][3]) /\ matches[i][3] = name }

\* the loaded rules that match name
MatchingRules(name) ==
    { i \in 1..Len(matches) : RuleMatches(matches[i], name) }

Last(S) == CHOOSE i \in S : \A j \in S : j <= i

\* C1: after any sequence of GlobsFile.parse calls, match(fileName) of a
\* name that is the glob of a loaded wildcard-free rule returns, without
\* error, the typeName of the most recently loaded such rule, whatever the
\* weights of the rules.
C1_LiteralFastPath ==
    (lastOp = "GlobsFile.match" /\ LiteralRules(arg) # {})
        => out = Ret(matches[Last(LiteralRules(arg))][2])

\* rule i is at least as good as rule j: higher weight, or the same weight
\* and a pattern at least as long
AtLeast(i, j) ==
    \/ matches[i][1] > matches[j][1]
    \/ /\ matches[i][1] = matches[j][1]
       /\ Len(matches[i][3]) >= Len(matches[j][3])

\* the matching rule of highest weight, then longest pattern, then loaded
\* first
Best(name) ==
    CHOOSE i \in MatchingRules(name) :
        /\ \A j \in MatchingRules(name) : AtLeast(i, j)
        /\ \A j \in MatchingRules(name) : j < i => ~AtLeast(j, i)

\* C2: for a fileName that is not in the literal index and that some loaded
\* rule matches, match returns the typeName of the matching rule of highest
\* weight; among those of equal weight the one with the longest pattern; and
\* among those equal in both the one loaded first.
C2_WeightThenLengthThenFirst ==
    (lastOp = "GlobsFile.match" /\ LiteralRules(arg) = {}
        /\ MatchingRules(arg) # {})
        => out = Ret(matches[Best(arg)][2])

\* C2 witness: match has chosen among two matching rules of equal weight
\* and equal pattern length that name different types, taking the first.
C2_Witness ==
    /\ lastOp = "GlobsFile.match"
    /\ LiteralRules(arg) = {}
    /\ \E i, j \in MatchingRules(arg) :
          /\ i < j
          /\ matches[i][1] = matches[j][1]
          /\ Len(matches[i][3]) = Len(matches[j][3])
          /\ matches[i][2] # matches[j][2]
          /\ out = Ret(matches[i][2])

\* C3: for a fileName with no literal rule that no loaded rule matches,
\* match reports no match and fromName returns None; and fromName returns a
\* MimeType only when a loaded rule is found for the fileName (its literal
\* rule, or a rule that matches it), and then under that rule's typeName.
C3_AbsentUnlessRuleFound ==
    /\ (lastOp = "GlobsFile.match" /\ LiteralRules(arg) = {}
            /\ MatchingRules(arg) = {})
          => out = Ret("")
    /\ lastOp = "MimeType.fromName"
          => /\ (LiteralRules(arg) = {} /\ MatchingRules(arg) = {})
                    => out = None
             /\ out # None
                    => /\ out[1] = "ret"
                       /\ \E i \in LiteralRules(arg) \cup MatchingRules(arg) :
                             out[2] = matches[i][2]

\* the only loaded rule, when it is a pattern rule without the "cs" flag
OnlyRuleIsFoldingPattern ==
    /\ Len(matches) = 1
    /\ ~WildcardFree(matches[1][3])
    /\ \A k \in 1..Len(matches[1][4]) : matches[1][4][k] # "cs"

\* C4: a rule without the "cs" flag matches a file name that differs from
\* its pattern only in letter case (*.JPG matches photo.jpg): when it is the
\* only loaded rule, match returns its typeName.
C4_PatternCaseIgnored ==
    (lastOp = "GlobsFile.match" /\ OnlyRuleIsFoldingPattern
        /\ Fnmatch(Lower(arg), Lower(matches[1][3])))
        => out = Ret(matches[1][2])

\* C4, amended: only the file name is lower-cased, never the pattern.  When
\* the only loaded rule is a pattern rule without the "cs" flag, match
\* returns its typeName exactly when the file name or its lower-case form
\* matches the pattern as written, and reports no match otherwise; with the
\* "cs" flag the lower-case form is not tried.
C4_FileNameLowered ==
    (lastOp = "GlobsFile.match" /\ Len(matches) = 1
        /\ ~WildcardFree(matches[1][3]))
        => LET rule == matches[1]
               cs == \E k \in 1..Len(rule[4]) : rule[4][k] = "cs"
               hit == \/ Fnmatch(arg, rule[3])
                      \/ ~cs /\ Fnmatch(Lower(arg), rule[3])
           IN  /\ out = IF hit THEN Ret(rule[2]) ELSE Ret("")
               /\ (arg = "NOTES.TXT" /\ rule[3] = "*.txt") => out = Ret(rule[2])
               /\ (arg = "photo.jpg" /\ rule[3] = "*.JPG") => out = Ret("")
               /\ (arg = "NOTES.TXT" /\ rule[3] = "*.tx?") => out = Ret("")

\* C4 witness: the rule *.txt, without "cs", has matched NOTES.TXT through
\* the lower-case form of the file name.
C4_Witness ==
    /\ lastOp = "GlobsFile.match"
    /\ OnlyRuleIsFoldingPattern
    /\ arg = "NOTES.TXT"
    /\ ~Fnmatch(arg, matches[1][3])
    /\ out = Ret(matches[1][2])
    /\ out # Ret("")

\* the lines of GLOBS that lack the weight, the typeName or the glob
LacksField(rawLine) ==
    LET fields == Split(StripNewline(rawLine), ":")
    IN  /\ ~StartsWith(rawLine, "#")
        /\ \/ Len(fields) < 3
           \/ \E k \in 1..3 : fields[k] = ""

\* C9: GlobsFile.parse of a source with a non-comment line that lacks the
\* weight, the typeName or the glob fails, and no rule with an empty
\* typeName or an empty glob is left in the rule sequence or in the literal
\* index.
C9_MissingFieldFails ==
    (lastOp = "GlobsFile.parse" /\ \E k \in 1..Len(arg) : LacksField(arg[k]))
        => /\ IsRaise(out)
           /\ \A i \in 1..Len(matches) :
                 matches[i][2] # "" /\ matches[i][3] # ""
           /\ "" \notin DOMAIN literals

-----------------------------------------------------------------------------
(* Properties of the alias table, under SpecAliases.                       *)

\* the lines loaded so far whose alias field is a: "a SPACE canonical"
LinesOf(a) ==
    { i \in 1..Len(aliasLog) :
        LET line == StripNewline(aliasLog[i])
        IN  /\ Len(line) > Len(a) + 1
            /\ Take(line, Len(a) + 1) = a \o " " }

\* C5: after any sequence of successful AliasesFile.parse calls, get(a)
\* returns the canonical name of the last loaded line whose alias field is
\* a, and None for a name that was never an alias field.
C5_LastAliasWins ==
    (lastOp = "AliasesFile.get" /\ ~aliasFailed)
        => IF LinesOf(arg) = {} THEN out = None
           ELSE out = Ret(Drop(StripNewline(aliasLog[Last(LinesOf(arg))]),
                               Len(arg) + 1))

\* C5 witness: get has answered for an alias that two loaded lines give
\* different canonical names.
C5_Witness ==
    /\ lastOp = "AliasesFile.get"
    /\ ~aliasFailed
    /\ arg = "text/x-foo"
    /\ \E i, j \in LinesOf(arg) : i < j /\ aliasLog[i] # aliasLog[j]
    /\ out # None

\* a line that is not "alias SPACE canonical": no space, or more than one
Malformed(rawLine) ==
    LET line == StripNewline(rawLine)
    IN  Cardinality({ k \in 1..Len(line) : Chr(line, k) = " " }) # 1

\* C10: AliasesFile.parse of a source with a malformed line fails and
\* leaves the alias table exactly as it was before the call.
C10_FailedParseLeavesTable ==
    (lastOp = "AliasesFile.parse" /\ \E k \in 1..Len(arg) : Malformed(arg[k]))
        => IsRaise(out) /\ aliases = aliasBefore

-----------------------------------------------------------------------------
(* Properties of MimeType, under SpecMime.                                 *)

\* v is name with every "/" replaced by "-"
IsDerivedIcon(v, name) ==
    /\ Len(v) = Len(name)
    /\ \A k \in 1..Len(name) :
          Chr(v, k) = IF Chr(name, k) = "/" THEN "-" ELSE Chr(name, k)

\* C6: icon() never fails and never returns None or an empty string: it
\* returns the generic icon registered for the type name when one is
\* registered, and otherwise the type name with every "/" replaced by "-".
C6_IconRegisteredOrDerived ==
    lastOp = "icon"
        => /\ out[1] = "ret"
           /\ out[2] # ""
           /\ IF obj.name \in DOMAIN icons THEN out[2] = icons[obj.name]
              ELSE IsDerivedIcon(out[2], obj.name)

\* C6, amended: icon() never fails and never returns None; it returns the
\* generic icon registered for the type name when a non-empty one is
\* registered, and otherwise the type name with every "/" replaced by "-",
\* which is non-empty whenever the type name is.
C6_IconNonEmptyRegisteredOrDerived ==
    lastOp = "icon"
        => /\ out[1] = "ret"
           /\ obj.name # "" => out[2] # ""
           /\ IF obj.name \in DOMAIN icons /\ icons[obj.name] # ""
              THEN out[2] = icons[obj.name]
              ELSE IsDerivedIcon(out[2], obj.name)

\* C6 witness: icon() has derived application-x-foo for application/x-foo,
\* which has no registered icon.
C6_Witness ==
    /\ lastOp = "icon"
    /\ obj.name = "application/x-foo"
    /\ obj.name \notin DOMAIN icons
    /\ out = Ret("application-x-foo")

\* the comment elements of the documents whose language is lang
CommentsIn(lang) ==
    UNION { { docs[i][k][2] : k \in
                { n \in 1..Len(docs[i]) :
                    lang = IF docs[i][n][1] # "" THEN docs[i][n][1]
                           ELSE "en" } } :
            i \in 1..Len(docs) }

\* C7: for a type whose documents exist, comment(lang) returns None, not an
\* error, when no comment element has the language lang, and the text of
\* such an element when there is one.
C7_CommentOrNone ==
    (lastOp = "comment" /\ docs # <<>>)
        => IF CommentsIn(arg) = {} THEN out = None
           ELSE out[1] = "ret" /\ out[2] \in CommentsIn(arg)

\* C8: isDefault() returns a boolean without error, true exactly when the
\* type name is text/plain or application/octet-stream.
C8_IsDefault ==
    lastOp = "isDefault"
        => out = Ret(obj.name \in { "text/plain", "application/octet-stream" })

=============================================================================
